---- MODULE Spec2Model ----
(***************************************************************************)
(* The signaling package of golang-video-audio-call-app: Hub, Room and     *)
(* Client with their goroutines (one accept path per connection, a read    *)
(* and a write pump per client, one broadcast loop per room) and their     *)
(* three kinds of lock (Hub.roomsMutex, Room.clientMutex, Client.mutex).   *)
(*                                                                         *)
(* Every goroutine is a stack of frames; a frame is one activation of a    *)
(* function of the package and "pc" is the place it has reached.  A step   *)
(* that takes a lock is enabled only while the lock is free: Go's          *)
(* sync.Mutex and sync.RWMutex are not reentrant, so a goroutine that      *)
(* locks a mutex it already holds waits for ever.  A read lock that is     *)
(* taken and released around a read with no blocking call in between       *)
(* (Broadcast's log line, IsEmpty, GetClients, the broadcast loop's        *)
(* snapshot) is one step whose guard is that no writer holds the lock.     *)
(***************************************************************************)
EXTENDS Naturals, Sequences, FiniteSets, TLC

\* Connections accepted by handleWebSocket; generateClientID names each, and
\* NewClient builds its Client (isHost: false).
DialClients == {"a", "b", "c"}
\* The ids of the Client literals the package's tests build
\* (&Client{ID: "test-client"}, "client1", "client2").
TestClients == {"test-client", "client1", "client2"}
ClientIDs == DialClients \cup TestClients
\* The room ids connections name in their roomId query parameter ...
ServerRoomIDs == {"r1", "r2"}
\* ... and those the tests use.
TestRoomIDs == {"test-room", "other-room", "room1", "room2"}
RoomIDs == ServerRoomIDs \cup TestRoomIDs

\* Room values NewRoom can allocate in one run: rooms are never removed, so
\* the server makes one per room id and no test makes more than two
\* (InstsSuffice states that the bound is never met).
MaxInst == 2
\* Capacity of the send channel NewClient makes; the program allocates 100
\* (client.go:49).
SendCap == 2
\* Capacity of Room.broadcast; the program allocates 100 (NewRoom).
BroadcastCap == 2
\* Events from outside on the connections in one run: inbound frames read by
\* the read pumps and transport failures (a read, a write or a ping failing
\* on a connection the relay has not closed itself).
MaxEvents == 1

Insts == 1..MaxInst
NoInst == 0
NoThread == <<"none", "">>

\* The goroutines: the handler of each connection, the handler of the
\* /api/rooms requests, the goroutine of the test function being run, the
\* two pumps of each connection and the broadcast loop of each Room.
Threads ==
    {<<"accept", c>> : c \in DialClients} \cup {<<"api", "">>, <<"test", "">>}
    \cup {<<"read", c>> : c \in DialClients} \cup {<<"write", c>> : c \in DialClients}
    \cup {<<"loop", i>> : i \in Insts}

VARIABLES
    hubRooms,   \* Hub.rooms: room id -> Room value (NoInst: no entry)
    hmutex,     \* Hub.roomsMutex: the goroutine holding it for writing
    nextInst,   \* the next Room value NewRoom allocates
    rooms,      \* Room values: [ID, clients, hostID, broadcast]
    rmutex,     \* Room.clientMutex: the goroutine holding it for writing
    client,     \* Client values: [made, room, isHost, closed, send, cap, sendClosed, connClosed]
    cmutex,     \* Client.mutex: the goroutine holding it
    stack,      \* the frames of each goroutine, innermost last
    events,     \* events from outside on the connections so far
    closeRuns   \* history: how many times the body of Client.Close ran, per client

vars == <<hubRooms, hmutex, nextInst, rooms, rmutex, client, cmutex, stack, events,
          closeRuns>>

-----------------------------------------------------------------------------
(* Messages (message.go).  Data's fields are flattened; a field the message *)
(* does not carry is "" or {}; a boolean of Data is "true" or "false".      *)

Message(type, from, to, hostId, isHost, users, who) ==
    [type |-> type, from |-> from, to |-> to, hostId |-> hostId, isHost |-> isHost,
     users |-> users, who |-> who, roomId |-> ""]

NoMsg == Message("", "", "", "", "", {}, "")

BoolStr(b) == IF b THEN "true" ELSE "false"

\* NewClient's welcome: the only message that carries a roomId.
WelcomeMsg(rid, id, flag) ==
    [Message("welcome", "", id, "", BoolStr(flag), {}, id) EXCEPT !.roomId = rid]
UserListMsg(id, users) == Message("user-list", "", id, "", "", users, "")
UserJoinedMsg(id, flag) == Message("user-joined", id, "", "", BoolStr(flag), {}, id)
JoinRelayMsg(id) == Message("user-joined", id, "", "", "", {}, id)
UserLeftMsg(id) == Message("user-left", id, "", "", "", {}, id)
HostStatusMsg(id, flag) == Message("host-status", "", id, "", BoolStr(flag), {}, "")
\* Client.SetHost's broadcast: From and hostId are the client itself.
HostChangeFrom(id, flag) == Message("host-change", id, "", id, BoolStr(flag), {}, "")
\* Room.AddClient's and Room.SetHost's direct send: no From.
HostChangeTo(hostId, flag) == Message("host-change", "", "", hostId, BoolStr(flag), {}, "")
\* Room.RemoveClient's broadcast: no From, no isHost.
HostElectedMsg(hostId) == Message("host-change", "", "", hostId, "", {}, "")
\* An inbound frame as json.Unmarshal hands it to readPump: its Type and the
\* From its sender wrote into it (the payload is not looked at).
RelayMsg(type, from) == Message(type, from, "", "", "", {}, "")

\* msg.From = c.ID: whatever From the frame carried is overwritten.
StampFrom(m, id) == [m EXCEPT !.from = id]

-----------------------------------------------------------------------------
(* Channels.  A buffered Go channel is a queue: a send puts the value      *)
(* behind those already there and a receive takes the oldest one.          *)

\* ch <- m on a channel holding q (the sender has found room)
ChanPut(q, m) == Append(q, m)

-----------------------------------------------------------------------------
(* Frames *)

Frame(fn, pc, c, r, m, s, p) ==
    [fn |-> fn, pc |-> pc, c |-> c, r |-> r, m |-> m, s |-> s, p |-> p, ex |-> "", seen |-> {},
     was |-> {}, calls |-> <<>>, out |-> <<>>]

Top(t) == stack[t][Len(stack[t])]
At(t, fn, pc) == Len(stack[t]) > 0 /\ Top(t).fn = fn /\ Top(t).pc = pc

Pop(st) == SubSeq(st, 1, Len(st) - 1)
SetTop(st, f) == [st EXCEPT ![Len(st)] = f]
\* the running frame moves to pc and calls f
Call(st, pc, f) == Append(SetTop(st, [st[Len(st)] EXCEPT !.pc = pc]), f)

SendFrame(c, m) == Frame("Send", "lock", c, NoInst, m, {}, "")
CloseFrame(c) == Frame("Close", "lock", c, NoInst, NoMsg, {}, "")
ClientSetHostFrame(c, flag) == Frame("ClientSetHost", "lock", c, NoInst, NoMsg, {}, BoolStr(flag))
AddClientFrame(r, c) == Frame("AddClient", "lock", c, r, NoMsg, {}, "")
RemoveClientFrame(r, c) == Frame("RemoveClient", "lock", c, r, NoMsg, {}, "")
RoomSetHostFrame(r, c) == Frame("RoomSetHost", "lock", c, r, NoMsg, {}, "")
BroadcastFrame(r, m, ex) == [Frame("Broadcast", "log", "", r, m, {}, "") EXCEPT !.ex = ex]
RemoveRoomFrame(rid) == Frame("RemoveRoom", "lock", "", NoInst, NoMsg, {}, rid)

-----------------------------------------------------------------------------
(* Initial state.  The package runs in two programs: the server (main.go:   *)
(* NewHub, then the handlers of the requests that arrive) and the package's *)
(* tests, where go test runs one test function on a Hub or a Room of its    *)
(* own.                                                                     *)

NoRoom == [ID |-> "", clients |-> {}, hostID |-> "", broadcast |-> <<>>]
NoClient == [made |-> FALSE, room |-> NoInst, isHost |-> FALSE, closed |-> FALSE,
             send |-> <<>>, cap |-> 0, sendClosed |-> FALSE, connClosed |-> FALSE]

\* One call of a test function, with the arguments it passes: a room id, a
\* client id and, for a Client literal, the capacity of the send channel it
\* makes (0: the literal sets no send).
TestCall(op, rid, c, cap) == [op |-> op, rid |-> rid, c |-> c, cap |-> cap]

\* The calls each test function makes on the package, in its order.
TestNewHub == <<>>

TestGetRoom ==
    <<TestCall("GetRoom", "test-room", "", 0), TestCall("GetRoom", "test-room", "", 0),
      TestCall("GetRoom", "other-room", "", 0)>>

TestRemoveRoom ==
    <<TestCall("GetRoom", "test-room", "", 0), TestCall("Literal", "", "test-client", 0),
      TestCall("AddClient", "", "test-client", 0), TestCall("RemoveRoom", "test-room", "", 0),
      TestCall("RemoveClient", "", "test-client", 0),
      TestCall("RemoveRoom", "test-room", "", 0)>>

TestGetActiveRooms ==
    <<TestCall("GetActiveRooms", "", "", 0), TestCall("GetRoom", "room1", "", 0),
      TestCall("GetRoom", "room2", "", 0), TestCall("GetActiveRooms", "", "", 0)>>

TestNewRoom == <<TestCall("NewRoom", "test-room", "", 0)>>

TestAddClient ==
    <<TestCall("NewRoom", "test-room", "", 0), TestCall("Literal", "", "test-client", 0),
      TestCall("AddClient", "", "test-client", 0)>>

TestRemoveClient ==
    <<TestCall("NewRoom", "test-room", "", 0), TestCall("Literal", "", "test-client", 0),
      TestCall("AddClient", "", "test-client", 0),
      TestCall("RemoveClient", "", "test-client", 0),
      TestCall("RemoveClient", "", "non-existent-client", 0)>>

TestGetClients ==
    <<TestCall("NewRoom", "test-room", "", 0), TestCall("GetClients", "", "", 0),
      TestCall("Literal", "", "client1", 0), TestCall("Literal", "", "client2", 0),
      TestCall("AddClient", "", "client1", 0), TestCall("AddClient", "", "client2", 0),
      TestCall("GetClients", "", "", 0)>>

TestIsEmpty ==
    <<TestCall("NewRoom", "test-room", "", 0), TestCall("IsEmpty", "", "", 0),
      TestCall("Literal", "", "test-client", 0), TestCall("AddClient", "", "test-client", 0),
      TestCall("IsEmpty", "", "", 0), TestCall("RemoveClient", "", "test-client", 0),
      TestCall("IsEmpty", "", "", 0)>>

TestBroadcast ==
    <<TestCall("NewRoom", "test-room", "", 0), TestCall("Broadcast", "", "", 0),
      TestCall("Literal", "", "test-client", 1), TestCall("AddClient", "", "test-client", 0),
      TestCall("Broadcast", "", "", 0), TestCall("Receive", "", "test-client", 0)>>

HubTests == {TestNewHub, TestGetRoom, TestRemoveRoom, TestGetActiveRooms}

RoomTests ==
    {TestNewRoom, TestAddClient, TestRemoveClient, TestGetClients, TestIsEmpty, TestBroadcast}

\* main: the server waits for connections and for /api/rooms requests.
ServerStack(t) ==
    IF t[1] = "accept" THEN <<Frame("handleWebSocket", "idle", t[2], NoInst, NoMsg, {}, "")>>
    ELSE IF t[1] = "api" THEN <<Frame("apiRooms", "idle", "", NoInst, NoMsg, {}, "")>>
    ELSE IF t[1] = "read" THEN <<Frame("readPump", "unborn", t[2], NoInst, NoMsg, {}, "")>>
    ELSE IF t[1] = "write" THEN <<Frame("writePump", "unborn", t[2], NoInst, NoMsg, {}, "")>>
    ELSE IF t[1] = "loop" THEN <<Frame("broadcastLoop", "unborn", "", t[2], NoMsg, {}, "")>>
    ELSE <<>>

\* go test: one test function is about to make its calls; nothing listens.
TestStack(t, calls) ==
    IF t[1] = "test" THEN <<[Frame("Test", "run", "", NoInst, NoMsg, {}, "") EXCEPT !.calls = calls]>>
    ELSE IF t[1] = "loop" THEN <<Frame("broadcastLoop", "unborn", "", t[2], NoMsg, {}, "")>>
    ELSE <<>>

Init ==
    /\ hubRooms = [rid \in RoomIDs |-> NoInst]
    /\ hmutex = NoThread
    /\ nextInst = 1
    /\ rooms = [i \in Insts |-> NoRoom]
    /\ rmutex = [i \in Insts |-> NoThread]
    /\ client = [c \in ClientIDs |-> NoClient]
    /\ cmutex = [c \in ClientIDs |-> NoThread]
    /\ \/ stack = [t \in Threads |-> ServerStack(t)]
       \/ \E calls \in HubTests \cup RoomTests : stack = [t \in Threads |-> TestStack(t, calls)]
    /\ events = 0
    /\ closeRuns = [c \in ClientIDs |-> 0]

-----------------------------------------------------------------------------
(* Hub (hub.go) *)

\* Hub.GetRoom takes roomsMutex, looks the id up, creates and registers a
\* Room (NewRoom starts its broadcast loop) when there is none, and releases
\* the lock: nothing in it can block, so it is part of its caller's step,
\* which waits only for roomsMutex.
CanGetRoom(rid) == hmutex = NoThread

\* a GetRoom that never finds the room it registered
RoomOfFresh(rid) == nextInst

\* the Room GetRoom(rid) returns: the registered one, else the one it creates
RoomOf(rid) == IF hubRooms[rid] # NoInst THEN hubRooms[rid] ELSE nextInst

NewRoom(id) == [ID |-> id, clients |-> {}, hostID |-> "", broadcast |-> <<>>]

GetRoom(rid) ==
    /\ hubRooms' = [hubRooms EXCEPT ![rid] = RoomOf(rid)]
    /\ nextInst' = IF hubRooms[rid] = NoInst THEN nextInst + 1 ELSE nextInst
    /\ rooms' = IF hubRooms[rid] = NoInst
                THEN [rooms EXCEPT ![nextInst] = NewRoom(rid)]
                ELSE rooms

\* go room.broadcastLoop() for the Room value i
GoBroadcastLoop(st, i) ==
    [st EXCEPT ![<<"loop", i>>] = <<Frame("broadcastLoop", "recv", "", i, NoMsg, {}, "")>>]

\* the stack st with the broadcast loop of a Room created by GetRoom(rid) started
WithLoop(st, rid) == IF hubRooms[rid] = NoInst THEN GoBroadcastLoop(st, nextInst) ELSE st

\* Hub.GetActiveRooms: the ids registered now.
GetActiveRooms == {rid \in RoomIDs : hubRooms[rid] # NoInst}

\* Hub.RemoveRoom: takes roomsMutex ...
RemoveRoom_Lock(t) ==
    /\ At(t, "RemoveRoom", "lock")
    /\ hmutex = NoThread
    /\ IF hubRooms[Top(t).p] = NoInst
       THEN /\ stack' = [stack EXCEPT ![t] = Pop(@)]
            /\ UNCHANGED hmutex
       ELSE /\ hmutex' = t
            /\ stack' = [stack EXCEPT ![t] = SetTop(@, [Top(t) EXCEPT !.pc = "check"])]
    /\ UNCHANGED <<hubRooms, nextInst, rooms, rmutex, client, cmutex, events, closeRuns>>

\* Room.IsEmpty, read under the Room's read lock.
IsEmpty(r) == rooms[r].clients = {}

\* ... and, holding it, asks the registered Room IsEmpty (a read lock on the
\* Room), deletes the entry when it is, and releases roomsMutex.
RemoveRoom_Check(t) ==
    /\ At(t, "RemoveRoom", "check")
    /\ rmutex[hubRooms[Top(t).p]] = NoThread
    /\ hubRooms' = IF IsEmpty(hubRooms[Top(t).p])
                   THEN [hubRooms EXCEPT ![Top(t).p] = NoInst]
                   ELSE hubRooms
    /\ hmutex' = NoThread
    /\ stack' = [stack EXCEPT ![t] = Pop(@)]
    /\ UNCHANGED <<nextInst, rooms, rmutex, client, cmutex, events, closeRuns>>

-----------------------------------------------------------------------------
(* Client.Send, Client.SetHost, Client.Close (client.go) *)

\* What Send does with a message once it holds the client's mutex: the
\* select takes its default case when the channel is full, and also when it
\* is nil (cap 0), as it is in a literal that sets no send.
SendOutcome(closed, queued, cap) ==
    IF closed THEN "drop"
    ELSE IF queued < cap THEN "enqueue"
    ELSE "close"

\* Client.Send: lock; closed: return; room in the channel: enqueue and
\* return; channel full: call Close with the mutex still held.
Send_Lock(t) ==
    /\ At(t, "Send", "lock")
    /\ LET c == Top(t).c
           out == SendOutcome(client[c].closed, Len(client[c].send), client[c].cap)
       IN /\ cmutex[c] = NoThread
          /\ IF out = "drop"
             THEN /\ stack' = [stack EXCEPT ![t] = Pop(@)]
                  /\ UNCHANGED <<client, cmutex>>
             ELSE IF out = "enqueue"
             THEN /\ client' = [client EXCEPT ![c].send = ChanPut(@, Top(t).m)]
                  /\ stack' = [stack EXCEPT ![t] = Pop(@)]
                  /\ UNCHANGED cmutex
             ELSE /\ cmutex' = [cmutex EXCEPT ![c] = t]
                  /\ stack' = [stack EXCEPT ![t] = Call(@, "unlock", CloseFrame(c))]
                  /\ UNCHANGED client
    /\ UNCHANGED <<hubRooms, hmutex, nextInst, rooms, rmutex, events, closeRuns>>

\* Send's deferred Unlock after Close has returned.
Send_Unlock(t) ==
    /\ At(t, "Send", "unlock")
    /\ cmutex' = [cmutex EXCEPT ![Top(t).c] = NoThread]
    /\ stack' = [stack EXCEPT ![t] = Pop(@)]
    /\ UNCHANGED <<hubRooms, hmutex, nextInst, rooms, rmutex, client, events, closeRuns>>

\* Client.SetHost: lock; no change: return; otherwise set the flag and
\* call Send(host-status) with the mutex still held.
ClientSetHost_Lock(t) ==
    /\ At(t, "ClientSetHost", "lock")
    /\ LET c == Top(t).c
           flag == Top(t).p = "true"
       IN /\ cmutex[c] = NoThread
          /\ IF client[c].isHost = flag
             THEN /\ stack' = [stack EXCEPT ![t] = Pop(@)]
                  /\ UNCHANGED <<client, cmutex>>
             ELSE /\ client' = [client EXCEPT ![c].isHost = flag]
                  /\ cmutex' = [cmutex EXCEPT ![c] = t]
                  /\ stack' = [stack EXCEPT ![t] =
                         Call(@, "broadcast", SendFrame(c, HostStatusMsg(c, flag)))]
    /\ UNCHANGED <<hubRooms, hmutex, nextInst, rooms, rmutex, events, closeRuns>>

\* the program after a panic nobody recovers: no goroutine is left
Crashed == [t \in Threads |-> <<>>]

\* A panic unwinds its goroutine before the process ends: the deferred
\* Unlocks of all its frames run, so no mutex stays with it ...
Unwound(held, t) == [k \in DOMAIN held |-> IF held[k] = t THEN NoThread ELSE held[k]]
PanicFrame == Frame("panic", "exit", "", NoInst, NoMsg, {}, "")

\* ... and then, nobody having recovered it, the runtime ends the process;
\* until it does the other goroutines go on.
Panic_Exit(t) ==
    /\ At(t, "panic", "exit")
    /\ stack' = Crashed
    /\ UNCHANGED <<hubRooms, hmutex, nextInst, rooms, rmutex, client, cmutex, events, closeRuns>>

\* ... then c.Room.Broadcast(host-change from this client, excluding it); a
\* literal that sets no Room has c.Room nil, and Broadcast panics on it ...
ClientSetHost_Broadcast(t) ==
    /\ At(t, "ClientSetHost", "broadcast")
    /\ LET c == Top(t).c
       IN IF client[c].room = NoInst
          THEN /\ cmutex' = Unwound(cmutex, t)
               /\ rmutex' = Unwound(rmutex, t)
               /\ stack' = [stack EXCEPT ![t] = <<PanicFrame>>]
          ELSE /\ stack' = [stack EXCEPT ![t] =
                      Call(@, "unlock",
                           BroadcastFrame(client[c].room, HostChangeFrom(c, Top(t).p = "true"), c))]
               /\ UNCHANGED <<cmutex, rmutex>>
    /\ UNCHANGED <<hubRooms, hmutex, nextInst, rooms, client, events, closeRuns>>

\* ... and the deferred Unlock.
ClientSetHost_Unlock(t) ==
    /\ At(t, "ClientSetHost", "unlock")
    /\ cmutex' = [cmutex EXCEPT ![Top(t).c] = NoThread]
    /\ stack' = [stack EXCEPT ![t] = Pop(@)]
    /\ UNCHANGED <<hubRooms, hmutex, nextInst, rooms, rmutex, client, events, closeRuns>>

\* Close's guard: the body runs when the closed flag is not set yet.
RunsCloseBody(closed) == ~closed

\* Client.Close: lock; already closed: return; otherwise set closed and,
\* when c.Room is set, broadcast user-left (excluding nobody) with the mutex
\* held.
Close_Lock(t) ==
    /\ At(t, "Close", "lock")
    /\ LET c == Top(t).c
       IN /\ cmutex[c] = NoThread
          /\ IF ~RunsCloseBody(client[c].closed)
             THEN /\ stack' = [stack EXCEPT ![t] = Pop(@)]
                  /\ UNCHANGED <<client, cmutex, closeRuns>>
             ELSE /\ client' = [client EXCEPT ![c].closed = TRUE]
                  /\ cmutex' = [cmutex EXCEPT ![c] = t]
                  /\ closeRuns' = [closeRuns EXCEPT ![c] = @ + 1]
                  /\ stack' = [stack EXCEPT ![t] =
                         IF client[c].room = NoInst
                         THEN SetTop(@, [Top(t) EXCEPT !.pc = "chan"])
                         ELSE Call(@, "chan",
                                   BroadcastFrame(client[c].room, UserLeftMsg(c), ""))]
    /\ UNCHANGED <<hubRooms, hmutex, nextInst, rooms, rmutex, events>>

\* close(c.send), c.conn.Close(), then Room.RemoveClient(c.ID).  A literal
\* has no connection and, unless it made one, no channel: close of a nil
\* channel panics, and so does Close on a nil connection.
Close_Chan(t) ==
    /\ At(t, "Close", "chan")
    /\ LET c == Top(t).c
       IN IF client[c].room = NoInst
          THEN /\ client' = [client EXCEPT ![c].sendClosed = client[c].cap > 0]
               /\ cmutex' = Unwound(cmutex, t)
               /\ rmutex' = Unwound(rmutex, t)
               /\ stack' = [stack EXCEPT ![t] = <<PanicFrame>>]
          ELSE /\ client' = [client EXCEPT ![c].sendClosed = TRUE, ![c].connClosed = TRUE]
               /\ stack' = [stack EXCEPT ![t] =
                      Call(@, "prune", RemoveClientFrame(client[c].room, c))]
               /\ UNCHANGED <<cmutex, rmutex>>
    /\ UNCHANGED <<hubRooms, hmutex, nextInst, rooms, events, closeRuns>>

\* Room.IsEmpty (a read lock), then Hub.RemoveRoom(c.Room.ID) when empty;
\* otherwise the deferred Unlock.
Close_Prune(t) ==
    /\ At(t, "Close", "prune")
    /\ LET c == Top(t).c
           r == client[c].room
       IN /\ rmutex[r] = NoThread
          /\ IF IsEmpty(r)
             THEN /\ stack' = [stack EXCEPT ![t] =
                         Call(@, "unlock", RemoveRoomFrame(rooms[r].ID))]
                  /\ UNCHANGED cmutex
             ELSE /\ cmutex' = [cmutex EXCEPT ![c] = NoThread]
                  /\ stack' = [stack EXCEPT ![t] = Pop(@)]
    /\ UNCHANGED <<hubRooms, hmutex, nextInst, rooms, rmutex, client, events, closeRuns>>

Close_Unlock(t) ==
    /\ At(t, "Close", "unlock")
    /\ cmutex' = [cmutex EXCEPT ![Top(t).c] = NoThread]
    /\ stack' = [stack EXCEPT ![t] = Pop(@)]
    /\ UNCHANGED <<hubRooms, hmutex, nextInst, rooms, rmutex, client, events, closeRuns>>

-----------------------------------------------------------------------------
(* Room (room.go) *)

\* Room.AddClient's test for making the new member the host.
ElectsFirst(members, hostID) == Cardinality(members) = 1 /\ hostID = ""

\* r.clients[client.ID] = client: a new key, or the key it had already.
Inserted(members, id) == members \cup {id}

\* Room.AddClient: lock; insert; first member of a room with no host:
\* hostID is set and client.SetHost(true) is called; a host is set:
\* client.Send(host-change naming it); both with the room's lock held.
AddClient_Lock(t) ==
    /\ At(t, "AddClient", "lock")
    /\ LET r == Top(t).r
           c == Top(t).c
           members == Inserted(rooms[r].clients, c)
       IN /\ rmutex[r] = NoThread
          /\ IF ElectsFirst(members, rooms[r].hostID)
             THEN /\ rooms' = [rooms EXCEPT ![r].clients = members, ![r].hostID = c]
                  /\ rmutex' = [rmutex EXCEPT ![r] = t]
                  /\ stack' = [stack EXCEPT ![t] =
                         Append(SetTop(@, [Top(t) EXCEPT !.pc = "unlock", !.p = "first"]),
                                ClientSetHostFrame(c, TRUE))]
             ELSE IF rooms[r].hostID # ""
             THEN /\ rooms' = [rooms EXCEPT ![r].clients = members]
                  /\ rmutex' = [rmutex EXCEPT ![r] = t]
                  /\ stack' = [stack EXCEPT ![t] =
                         Call(@, "unlock",
                              SendFrame(c, HostChangeTo(rooms[r].hostID, FALSE)))]
             ELSE /\ rooms' = [rooms EXCEPT ![r].clients = members]
                  /\ stack' = [stack EXCEPT ![t] = Pop(@)]
                  /\ UNCHANGED rmutex
    /\ UNCHANGED <<hubRooms, hmutex, nextInst, client, cmutex, events, closeRuns>>

AddClient_Unlock(t) ==
    /\ At(t, "AddClient", "unlock")
    /\ rmutex' = [rmutex EXCEPT ![Top(t).r] = NoThread]
    /\ stack' = [stack EXCEPT ![t] = Pop(@)]
    /\ UNCHANGED <<hubRooms, hmutex, nextInst, rooms, client, cmutex, events, closeRuns>>

\* The members Room.RemoveClient may make host when the host has left: the
\* first key of a range over the map after the delete, which Go leaves
\* unspecified.
Successors(members, removed) == members \ {removed}

\* delete(r.clients, clientID): nothing happens for a key that is not there.
Remaining(members, id) == members \ {id}

\* Room.RemoveClient: lock; delete; when the removed member was the host
\* and members remain, one of them becomes hostID ...
RemoveClient_Lock(t) ==
    /\ At(t, "RemoveClient", "lock")
    /\ LET r == Top(t).r
           c == Top(t).c
           remaining == Remaining(rooms[r].clients, c)
       IN /\ rmutex[r] = NoThread
          /\ IF c \in rooms[r].clients /\ c = rooms[r].hostID /\ remaining # {}
             THEN \E newHost \in Successors(rooms[r].clients, c) :
                     /\ rooms' = [rooms EXCEPT ![r].clients = remaining,
                                               ![r].hostID = newHost]
                     /\ rmutex' = [rmutex EXCEPT ![r] = t]
                     /\ stack' = [stack EXCEPT ![t] =
                            SetTop(@, [Top(t) EXCEPT !.pc = "announce"])]
             ELSE /\ rooms' = [rooms EXCEPT ![r].clients = remaining]
                  /\ stack' = [stack EXCEPT ![t] = Pop(@)]
                  /\ UNCHANGED rmutex
    /\ UNCHANGED <<hubRooms, hmutex, nextInst, client, cmutex, events, closeRuns>>

\* an entry of Room.broadcast: the message, and beside it what Broadcast
\* computed for its log line (the exclusion asked for, the recipients then)
Queued(m, ex, recipients) == [m |-> m, ex |-> ex, recipients |-> recipients]

\* ... and host-change naming it is put on the broadcast channel, which
\* waits while the channel is full, with the room's lock held.
RemoveClient_Announce(t) ==
    /\ At(t, "RemoveClient", "announce")
    /\ LET r == Top(t).r
       IN /\ Len(rooms[r].broadcast) < BroadcastCap
          /\ rooms' = [rooms EXCEPT ![r].broadcast =
                 ChanPut(@, Queued(HostElectedMsg(rooms[r].hostID), "", rooms[r].clients))]
          /\ rmutex' = [rmutex EXCEPT ![r] = NoThread]
          /\ stack' = [stack EXCEPT ![t] = Pop(@)]
    /\ UNCHANGED <<hubRooms, hmutex, nextInst, client, cmutex, events, closeRuns>>

\* What Room.SetHost returns: whether clientID is in the room.
SetHostResult(members, clientID) == clientID \in members

\* Room.SetHost: lock; not a member: return false; otherwise hostID is
\* set and client.SetHost(true) is called on the new host ...
RoomSetHost_Lock(t) ==
    /\ At(t, "RoomSetHost", "lock")
    /\ LET r == Top(t).r
           c == Top(t).c
       IN /\ rmutex[r] = NoThread
          /\ IF ~SetHostResult(rooms[r].clients, c)
             THEN /\ stack' = [stack EXCEPT ![t] = Pop(@)]
                  /\ UNCHANGED <<rooms, rmutex>>
             ELSE /\ rooms' = [rooms EXCEPT ![r].hostID = c]
                  /\ rmutex' = [rmutex EXCEPT ![r] = t]
                  /\ stack' = [stack EXCEPT ![t] =
                         Append(SetTop(@, [Top(t) EXCEPT !.pc = "previous",
                                                         !.p = rooms[r].hostID]),
                                ClientSetHostFrame(c, TRUE))]
    /\ UNCHANGED <<hubRooms, hmutex, nextInst, client, cmutex, events, closeRuns>>

\* ... then SetHost(false) on the previous host when it is another member ...
RoomSetHost_Previous(t) ==
    /\ At(t, "RoomSetHost", "previous")
    /\ LET r == Top(t).r
           prev == Top(t).p
           next == [Top(t) EXCEPT !.pc = "notify", !.s = rooms[r].clients]
       IN IF prev # "" /\ prev # Top(t).c /\ prev \in rooms[r].clients
          THEN stack' = [stack EXCEPT ![t] =
                   Append(SetTop(@, next), ClientSetHostFrame(prev, FALSE))]
          ELSE stack' = [stack EXCEPT ![t] = SetTop(@, next)]
    /\ UNCHANGED <<hubRooms, hmutex, nextInst, rooms, rmutex, client, cmutex, events, closeRuns>>

\* ... then host-change to every member, each with its own isHost, and
\* the deferred Unlock.
RoomSetHost_Notify(t) ==
    /\ At(t, "RoomSetHost", "notify")
    /\ LET r == Top(t).r
       IN IF Top(t).s # {}
          THEN /\ \E x \in Top(t).s :
                     stack' = [stack EXCEPT ![t] =
                         Append(SetTop(@, [Top(t) EXCEPT !.s = @ \ {x}]),
                                SendFrame(x, HostChangeTo(rooms[r].hostID,
                                                          x = rooms[r].hostID)))]
               /\ UNCHANGED rmutex
          ELSE /\ rmutex' = [rmutex EXCEPT ![r] = NoThread]
               /\ stack' = [stack EXCEPT ![t] = Pop(@)]
    /\ UNCHANGED <<hubRooms, hmutex, nextInst, rooms, client, cmutex, events, closeRuns>>

\* a range that may come by a key more than once
KeyListsRepeating(keys) == [1..Cardinality(keys) -> keys]

\* the slices a range over a map with these keys can build: every key once,
\* in an order Go leaves unspecified
KeyLists(keys) ==
    {l \in [1..Cardinality(keys) -> keys] :
        \A i, j \in 1..Cardinality(keys) : i # j => l[i] # l[j]}

\* the slices Hub.GetActiveRooms may return
GetActiveRoomsList == KeyLists(GetActiveRooms)

\* Room.GetClients, read under the Room's read lock: what it may return.
GetClients(r) == KeyLists(rooms[r].clients)

\* Broadcast's log line: the members other than excludeClientID.
Recipients(members, ex) == members \ {ex}

\* Room.Broadcast: the recipients are computed under a read lock for the
\* log line only ...
Broadcast_Log(t) ==
    /\ At(t, "Broadcast", "log")
    /\ LET r == Top(t).r
       IN /\ rmutex[r] = NoThread
          /\ stack' = [stack EXCEPT ![t] =
                 SetTop(@, [Top(t) EXCEPT !.pc = "enqueue",
                                          !.s = Recipients(rooms[r].clients, Top(t).ex)])]
    /\ UNCHANGED <<hubRooms, hmutex, nextInst, rooms, rmutex, client, cmutex, events, closeRuns>>

\* ... and the message is put on the broadcast channel, which waits while
\* the channel is full.
Broadcast_Enqueue(t) ==
    /\ At(t, "Broadcast", "enqueue")
    /\ LET r == Top(t).r
       IN /\ Len(rooms[r].broadcast) < BroadcastCap
          /\ rooms' = [rooms EXCEPT ![r].broadcast =
                 ChanPut(@, Queued(Top(t).m, Top(t).ex, Top(t).s))]
          /\ stack' = [stack EXCEPT ![t] = Pop(@)]
    /\ UNCHANGED <<hubRooms, hmutex, nextInst, rmutex, client, cmutex, events, closeRuns>>

\* The clients the broadcast loop sends a message to: every member but the
\* one named by the message's From, when it has one.
ClientsToSend(members, m) == {x \in members : ~(m.from = x /\ m.from # "")}

\* broadcastLoop: take the next message off the channel ...
Loop_Recv(t) ==
    /\ At(t, "broadcastLoop", "recv")
    /\ LET r == Top(t).r
       IN /\ Len(rooms[r].broadcast) > 0
          /\ rooms' = [rooms EXCEPT ![r].broadcast = Tail(@)]
          /\ stack' = [stack EXCEPT ![t] =
                 SetTop(@, [Top(t) EXCEPT !.pc = "snapshot",
                                          !.m = Head(rooms[r].broadcast).m,
                                          !.ex = Head(rooms[r].broadcast).ex,
                                          !.p = "", !.s = {}, !.seen = {},
                                          !.was = Head(rooms[r].broadcast).recipients])]
    /\ UNCHANGED <<hubRooms, hmutex, nextInst, rmutex, client, cmutex, events, closeRuns>>

\* ... list the clients to send to under a read lock ("seen" keeps the
\* membership read, "p" marks the send loop's start) ...
Loop_Snapshot(t) ==
    /\ At(t, "broadcastLoop", "snapshot")
    /\ LET r == Top(t).r
       IN /\ rmutex[r] = NoThread
          /\ stack' = [stack EXCEPT ![t] =
                 SetTop(@, [Top(t) EXCEPT !.pc = "send",
                                          !.seen = rooms[r].clients,
                                          !.p = "all",
                                          !.s = ClientsToSend(rooms[r].clients, Top(t).m)])]
    /\ UNCHANGED <<hubRooms, hmutex, nextInst, rooms, rmutex, client, cmutex, events, closeRuns>>

\* ... and call Send on each of them, in the order the map gave.
Loop_Send(t) ==
    /\ At(t, "broadcastLoop", "send")
    /\ IF Top(t).s # {}
       THEN \E x \in Top(t).s :
               stack' = [stack EXCEPT ![t] =
                   Append(SetTop(@, [Top(t) EXCEPT !.s = @ \ {x}, !.p = ""]),
                          SendFrame(x, Top(t).m))]
       ELSE stack' = [stack EXCEPT ![t] =
                <<Frame("broadcastLoop", "recv", "", Top(t).r, NoMsg, {}, "")>>]
    /\ UNCHANGED <<hubRooms, hmutex, nextInst, rooms, rmutex, client, cmutex, events, closeRuns>>

-----------------------------------------------------------------------------
(* NewClient (client.go) and handleWebSocket (main.go) *)

\* the Client value of NewClient's literal: its Room, isHost: false and a
\* send channel of its own
ClientValue(r) ==
    [made |-> TRUE, room |-> r, isHost |-> FALSE, closed |-> FALSE, send |-> <<>>,
     cap |-> SendCap, sendClosed |-> FALSE, connClosed |-> FALSE]

\* go client.readPump(); go client.writePump()
WithPumps(st, c) ==
    [st EXCEPT ![<<"read", c>>] = <<Frame("readPump", "read", c, NoInst, NoMsg, {}, "")>>,
               ![<<"write", c>>] = <<Frame("writePump", "select", c, NoInst, NoMsg, {}, "")>>]

\* handleWebSocket: a connection for room roomID is upgraded, with or
\* without isHost=true, and NewClient is called.
Accept(t) ==
    /\ At(t, "handleWebSocket", "idle")
    /\ \E rid \in ServerRoomIDs, isHost \in BOOLEAN :
          stack' = [stack EXCEPT ![t] =
              Append(SetTop(@, [Top(t) EXCEPT !.pc = "host", !.p = rid,
                                              !.ex = BoolStr(isHost)]),
                     Frame("NewClient", "start", Top(t).c, NoInst, NoMsg, {}, rid))]
    /\ UNCHANGED <<hubRooms, hmutex, nextInst, rooms, rmutex, client, cmutex, events, closeRuns>>

\* NewClient: hub.GetRoom, the Client literal, room.AddClient(client).
NewClient_Start(t) ==
    /\ At(t, "NewClient", "start")
    /\ LET rid == Top(t).p
           c == Top(t).c
       IN /\ CanGetRoom(rid)
          /\ GetRoom(rid)
          /\ client' = [client EXCEPT ![c] = ClientValue(RoomOf(rid))]
          /\ stack' = [WithLoop(stack, rid) EXCEPT ![t] =
                 Append(SetTop(@, [Top(t) EXCEPT !.pc = "pumps", !.r = RoomOf(rid)]),
                        AddClientFrame(RoomOf(rid), c))]
    /\ UNCHANGED <<hmutex, rmutex, cmutex, events, closeRuns>>

\* The pumps are started and welcome is sent, carrying client.isHost as it
\* is read now.
NewClient_Pumps(t) ==
    /\ At(t, "NewClient", "pumps")
    /\ LET c == Top(t).c
       IN stack' = [WithPumps(stack, c) EXCEPT ![t] =
              Call(@, "list", SendFrame(c, WelcomeMsg(Top(t).p, c, client[c].isHost)))]
    /\ UNCHANGED <<hubRooms, hmutex, nextInst, rooms, rmutex, client, cmutex, events, closeRuns>>

\* the ids of a user-list: the members other than the client itself
UserList(members, id) == members \ {id}

\* room.GetClients (a read lock), then user-list with the other members.
NewClient_List(t) ==
    /\ At(t, "NewClient", "list")
    /\ LET c == Top(t).c
           r == Top(t).r
       IN /\ rmutex[r] = NoThread
          /\ stack' = [stack EXCEPT ![t] =
                 Call(@, "joined",
                      SendFrame(c, UserListMsg(c, UserList(rooms[r].clients, c))))]
    /\ UNCHANGED <<hubRooms, hmutex, nextInst, rooms, rmutex, client, cmutex, events, closeRuns>>

\* room.Broadcast(user-joined, id)
NewClient_Joined(t) ==
    /\ At(t, "NewClient", "joined")
    /\ LET c == Top(t).c
       IN stack' = [stack EXCEPT ![t] =
              Call(@, "log", BroadcastFrame(Top(t).r, UserJoinedMsg(c, client[c].isHost), c))]
    /\ UNCHANGED <<hubRooms, hmutex, nextInst, rooms, rmutex, client, cmutex, events, closeRuns>>

\* the closing log line calls room.GetClients (a read lock); return.
NewClient_Log(t) ==
    /\ At(t, "NewClient", "log")
    /\ rmutex[Top(t).r] = NoThread
    /\ stack' = [stack EXCEPT ![t] = Pop(@)]
    /\ UNCHANGED <<hubRooms, hmutex, nextInst, rooms, rmutex, client, cmutex, events, closeRuns>>

\* handleWebSocket after NewClient: with isHost=true, hub.GetRoom(roomID)
\* again and room.SetHost(clientID).
Accept_Host(t) ==
    /\ At(t, "handleWebSocket", "host")
    /\ LET rid == Top(t).p
       IN IF Top(t).ex = "true"
          THEN /\ CanGetRoom(rid)
               /\ GetRoom(rid)
               /\ stack' = [WithLoop(stack, rid) EXCEPT ![t] =
                      <<RoomSetHostFrame(RoomOf(rid), Top(t).c)>>]
          ELSE /\ stack' = [stack EXCEPT ![t] = <<>>]
               /\ UNCHANGED <<hubRooms, nextInst, rooms>>
    /\ UNCHANGED <<hmutex, rmutex, client, cmutex, events, closeRuns>>

\* GET /api/rooms: the handler writes what Hub.GetActiveRooms returns (read
\* under the Hub's read lock); "out" keeps the list.
Api_Rooms(t) ==
    /\ At(t, "apiRooms", "idle")
    /\ hmutex = NoThread
    /\ \E l \in GetActiveRoomsList :
          stack' = [stack EXCEPT ![t] = SetTop(@, [Top(t) EXCEPT !.out = l])]
    /\ UNCHANGED <<hubRooms, hmutex, nextInst, rooms, rmutex, client, cmutex, events, closeRuns>>

\* the Client value of a test's literal: no Room, no connection, no hub,
\* isHost false, and a send channel only when the literal makes one
TestClientValue(cap) ==
    [made |-> TRUE, room |-> NoInst, isHost |-> FALSE, closed |-> FALSE, send |-> <<>>,
     cap |-> cap, sendClosed |-> FALSE, connClosed |-> FALSE]

\* the message TestBroadcast broadcasts
TestMsg == Message("test", "sender", "", "", "", {}, "")

\* The test function makes its next call.  A call that takes locks the test
\* cannot be kept waiting for (GetRoom, NewRoom, GetActiveRooms, GetClients,
\* IsEmpty) is part of the step and leaves what it returned in "out"; a call
\* of AddClient, RemoveClient, RemoveRoom or Broadcast becomes a frame of
\* its own, and the test goes on when it has returned.
Test_Call(t) ==
    /\ At(t, "Test", "run")
    /\ Top(t).calls # <<>>
    /\ LET call == Head(Top(t).calls)
           r == Top(t).r
           next == [Top(t) EXCEPT !.calls = Tail(@)]
       IN CASE call.op = "GetRoom" ->
                 /\ CanGetRoom(call.rid)
                 /\ GetRoom(call.rid)
                 /\ stack' = [WithLoop(stack, call.rid) EXCEPT ![t] =
                        <<[next EXCEPT !.r = RoomOf(call.rid)]>>]
                 /\ UNCHANGED client
            [] call.op = "NewRoom" ->
                 /\ rooms' = [rooms EXCEPT ![nextInst] = NewRoom(call.rid)]
                 /\ nextInst' = nextInst + 1
                 /\ stack' = [GoBroadcastLoop(stack, nextInst) EXCEPT ![t] =
                        <<[next EXCEPT !.r = nextInst]>>]
                 /\ UNCHANGED <<hubRooms, client>>
            [] call.op = "GetActiveRooms" ->
                 /\ hmutex = NoThread
                 /\ \E l \in GetActiveRoomsList :
                       stack' = [stack EXCEPT ![t] = <<[next EXCEPT !.out = l]>>]
                 /\ UNCHANGED <<hubRooms, nextInst, rooms, client>>
            [] call.op = "GetClients" ->
                 /\ rmutex[r] = NoThread
                 /\ \E l \in GetClients(r) :
                       stack' = [stack EXCEPT ![t] = <<[next EXCEPT !.out = l]>>]
                 /\ UNCHANGED <<hubRooms, nextInst, rooms, client>>
            [] call.op = "IsEmpty" ->
                 /\ rmutex[r] = NoThread
                 /\ stack' = [stack EXCEPT ![t] = <<[next EXCEPT !.out = <<IsEmpty(r)>>]>>]
                 /\ UNCHANGED <<hubRooms, nextInst, rooms, client>>
            [] call.op = "Literal" ->
                 /\ client' = [client EXCEPT ![call.c] = TestClientValue(call.cap)]
                 /\ stack' = [stack EXCEPT ![t] = <<next>>]
                 /\ UNCHANGED <<hubRooms, nextInst, rooms>>
            [] call.op = "AddClient" ->
                 /\ stack' = [stack EXCEPT ![t] = <<next, AddClientFrame(r, call.c)>>]
                 /\ UNCHANGED <<hubRooms, nextInst, rooms, client>>
            [] call.op = "RemoveClient" ->
                 /\ stack' = [stack EXCEPT ![t] = <<next, RemoveClientFrame(r, call.c)>>]
                 /\ UNCHANGED <<hubRooms, nextInst, rooms, client>>
            [] call.op = "RemoveRoom" ->
                 /\ stack' = [stack EXCEPT ![t] = <<next, RemoveRoomFrame(call.rid)>>]
                 /\ UNCHANGED <<hubRooms, nextInst, rooms, client>>
            [] call.op = "Broadcast" ->
                 /\ stack' = [stack EXCEPT ![t] = <<next, BroadcastFrame(r, TestMsg, "")>>]
                 /\ UNCHANGED <<hubRooms, nextInst, rooms, client>>
            [] call.op = "Receive" ->
                 /\ client' = [client EXCEPT ![call.c].send =
                                  IF Len(@) > 0 THEN Tail(@) ELSE @]
                 /\ stack' = [stack EXCEPT ![t] =
                        <<[next EXCEPT !.out = IF Len(client[call.c].send) > 0
                                              THEN <<Head(client[call.c].send)>> ELSE <<>>]>>]
                 /\ UNCHANGED <<hubRooms, nextInst, rooms>>
    /\ UNCHANGED <<hmutex, rmutex, cmutex, events, closeRuns>>

-----------------------------------------------------------------------------
(* readPump and writePump (client.go) *)

\* the Type of an inbound frame; "" stands for a frame json.Unmarshal rejects,
\* "offer" for the three types of readPump's first case, "bogus" for any
\* type it does not know
FrameTypes == {"offer", "chat", "join", "bogus", ""}

\* the exclusion readPump passes to Broadcast for a relayed frame
RelayExclude(type, id) == IF type = "chat" THEN "" ELSE id

\* the types of readPump's two relaying cases
Relayed(type) == type \in {"offer", "chat"}

\* readPump: a frame is read and decoded into msg, its From is overwritten
\* with the client's id, and it is dispatched on its Type; a frame that
\* does not decode is skipped.
ReadPump_Frame(t) ==
    /\ At(t, "readPump", "read")
    /\ events < MaxEvents
    /\ LET c == Top(t).c
       IN /\ ~client[c].connClosed
          /\ \E type \in FrameTypes, from \in ClientIDs \cup {""} :
                LET msg == StampFrom(RelayMsg(type, from), c)
                    read == IF type = "" THEN stack[t]
                            ELSE SetTop(stack[t], [Top(t) EXCEPT !.m = msg])
                IN IF Relayed(type)
                   THEN stack' = [stack EXCEPT ![t] =
                            Call(read, "read",
                                 BroadcastFrame(client[c].room, msg, RelayExclude(type, c)))]
                   ELSE IF type = "join"
                   THEN stack' = [stack EXCEPT ![t] =
                            Call(read, "list",
                                 BroadcastFrame(client[c].room, JoinRelayMsg(c), c))]
                   ELSE stack' = [stack EXCEPT ![t] = read]
    /\ events' = events + 1
    /\ UNCHANGED <<hubRooms, hmutex, nextInst, rooms, rmutex, client, cmutex, closeRuns>>

\* join: Room.GetClients (a read lock), then user-list to the client.
ReadPump_List(t) ==
    /\ At(t, "readPump", "list")
    /\ LET c == Top(t).c
           r == client[c].room
       IN /\ rmutex[r] = NoThread
          /\ stack' = [stack EXCEPT ![t] =
                 Call(@, "read", SendFrame(c, UserListMsg(c, UserList(rooms[r].clients, c))))]
    /\ UNCHANGED <<hubRooms, hmutex, nextInst, rooms, rmutex, client, cmutex, events, closeRuns>>

\* ReadMessage fails (the peer went away, the deadline passed, or the
\* connection was closed by Close): the loop ends and the deferred Close
\* runs; the goroutine ends when it returns.
ReadPump_Error(t) ==
    /\ At(t, "readPump", "read")
    /\ LET c == Top(t).c
       IN /\ client[c].connClosed \/ events < MaxEvents
          /\ events' = IF client[c].connClosed THEN events ELSE events + 1
          /\ stack' = [stack EXCEPT ![t] = <<CloseFrame(c)>>]
    /\ UNCHANGED <<hubRooms, hmutex, nextInst, rooms, rmutex, client, cmutex, closeRuns>>

\* writePump: a message is taken off the send channel and written; when
\* the write fails (the connection was closed by Close, or the transport
\* fails) the loop ends and the deferred Close runs.
WritePump_Message(t) ==
    /\ At(t, "writePump", "select")
    /\ LET c == Top(t).c
       IN /\ Len(client[c].send) > 0
          /\ client' = [client EXCEPT ![c].send = Tail(@)]
          /\ \E fails \in BOOLEAN :
                /\ fails => client[c].connClosed \/ events < MaxEvents
                /\ ~fails => ~client[c].connClosed
                /\ events' = IF fails /\ ~client[c].connClosed THEN events + 1 ELSE events
                /\ stack' = IF fails THEN [stack EXCEPT ![t] = <<CloseFrame(c)>>] ELSE stack
    /\ UNCHANGED <<hubRooms, hmutex, nextInst, rooms, rmutex, cmutex, closeRuns>>

\* The send channel is closed and drained, or the ping of a tick fails (the
\* connection was closed by Close, or the transport fails): the loop ends
\* and the deferred Close runs; the goroutine ends when it returns.
WritePump_End(t) ==
    /\ At(t, "writePump", "select")
    /\ LET c == Top(t).c
           drained == client[c].sendClosed /\ Len(client[c].send) = 0
           byItself == drained \/ client[c].connClosed
       IN /\ byItself \/ events < MaxEvents
          /\ events' = IF byItself THEN events ELSE events + 1
          /\ stack' = [stack EXCEPT ![t] = <<CloseFrame(c)>>]
    /\ UNCHANGED <<hubRooms, hmutex, nextInst, rooms, rmutex, client, cmutex, closeRuns>>

-----------------------------------------------------------------------------
(* The program.  Client.SetHost calls Send with the client's mutex held,   *)
(* and Send starts by locking that mutex: the call never returns.  Every   *)
(* Client the package builds has isHost false (NewClient's literal and the *)
(* tests' literals), so the first AddClient into a Room, which makes the   *)
(* new member the host through Client.SetHost(true), stops there with the  *)
(* Room's lock held, before any pump is started.  The steps of Next are    *)
(* the steps that are taken up to there; those of Unreached are the rest   *)
(* of the package, and NeverEnabled states of every reachable state that   *)
(* none of them can be taken.                                              *)

Step(t) ==
    \/ Accept(t)
    \/ NewClient_Start(t)
    \/ Api_Rooms(t)
    \/ Test_Call(t)
    \/ AddClient_Lock(t)
    \/ ClientSetHost_Lock(t)
    \/ Broadcast_Log(t)
    \/ Broadcast_Enqueue(t)
    \/ Loop_Recv(t)
    \/ Loop_Snapshot(t)
    \/ Loop_Send(t)

Next == \E t \in Threads : Step(t)

Spec == Init /\ [][Next]_vars

Unreached(t) ==
    \/ Accept_Host(t)
    \/ NewClient_Pumps(t)
    \/ NewClient_List(t)
    \/ NewClient_Joined(t)
    \/ NewClient_Log(t)
    \/ AddClient_Unlock(t)
    \/ RemoveClient_Lock(t)
    \/ RemoveClient_Announce(t)
    \/ RoomSetHost_Lock(t)
    \/ RoomSetHost_Previous(t)
    \/ RoomSetHost_Notify(t)
    \/ Send_Lock(t)
    \/ Send_Unlock(t)
    \/ ClientSetHost_Broadcast(t)
    \/ ClientSetHost_Unlock(t)
    \/ Close_Lock(t)
    \/ Close_Chan(t)
    \/ Close_Prune(t)
    \/ Close_Unlock(t)
    \/ RemoveRoom_Lock(t)
    \/ RemoveRoom_Check(t)
    \/ ReadPump_Frame(t)
    \/ ReadPump_List(t)
    \/ ReadPump_Error(t)
    \/ WritePump_Message(t)
    \/ WritePump_End(t)
    \/ Panic_Exit(t)

NeverEnabled == \A t \in Threads : ~ENABLED Unreached(t)

\* NewRoom never runs out of Room values: a call about to make a Room finds
\* one left.
InstsSuffice ==
    \A t \in Threads :
        /\ At(t, "NewClient", "start") /\ hubRooms[Top(t).p] = NoInst => nextInst <= MaxInst
        /\ At(t, "Test", "run") /\ Top(t).calls # <<>> =>
               LET call == Head(Top(t).calls)
               IN /\ call.op = "NewRoom" => nextInst <= MaxInst
                  /\ call.op = "GetRoom" /\ hubRooms[call.rid] = NoInst => nextInst <= MaxInst

\* The steps the Go scheduler takes by itself once they are possible; a
\* connection or a request arrives when the outside sends it.
Internal(t) ==
    \/ NewClient_Start(t)
    \/ Test_Call(t)
    \/ AddClient_Lock(t)
    \/ ClientSetHost_Lock(t)
    \/ Broadcast_Log(t)
    \/ Broadcast_Enqueue(t)
    \/ Loop_Recv(t)
    \/ Loop_Snapshot(t)
    \/ Loop_Send(t)

\* Every goroutine that can run does run.
FairSpec == Spec /\ \A t \in Threads : WF_vars(Internal(t))

-----------------------------------------------------------------------------
(* Claims *)

Range(q) == {q[k] : k \in 1..Len(q)}

\* goroutine t is inside an activation of fn at pc
Inside(t, fn, pc) == \E k \in 1..Len(stack[t]) : stack[t][k].fn = fn /\ stack[t][k].pc = pc

\* the Rooms session c is a member of
RoomsOf(c) == {i \in Insts : c \in rooms[i].clients}

\* some goroutine is inside Room.AddClient(c), having made c the host as
\* the first member of a room without one
FirstAdd(c) ==
    \E t \in Threads : \E k \in 1..Len(stack[t]) :
        /\ stack[t][k].fn = "AddClient" /\ stack[t][k].c = c /\ stack[t][k].p = "first"

\* C1: when AddClient inserts a session into an empty room with no host,
\* the operation completes with hostID = the session, its host flag set and
\* host-status{isHost:true} on its outbound queue.
C1_FirstMemberBecomesHost ==
    \A c \in ClientIDs :
        FirstAdd(c) ~>
            /\ ~FirstAdd(c)
            /\ \E i \in RoomsOf(c) : rooms[i].hostID = c
            /\ client[c].isHost
            /\ HostStatusMsg(c, TRUE) \in Range(client[c].send)

\* some goroutine is inside Client.Send for session c, whose outbound queue
\* can take no message: it holds as many as it has room for (none at all
\* for a literal that made no channel)
SendOnFull(c) ==
    /\ Len(client[c].send) >= client[c].cap
    /\ \E t \in Threads : \E k \in 1..Len(stack[t]) :
          stack[t][k].fn = "Send" /\ stack[t][k].c = c

\* C2: Send on a session whose outbound queue is full leaves the session
\* closed: closed flag set, outbound queue closed, session out of its room.
C2_OverflowClosesSession ==
    \A c \in ClientIDs :
        SendOnFull(c) ~>
            /\ client[c].closed
            /\ client[c].sendClosed
            /\ RoomsOf(c) = {}

\* the broadcast loop of Room r has taken a message and starts sending it to
\* the members it found but the one Broadcast was asked to exclude
DeliversAsAsked(r) ==
    LET t == <<"loop", r>>
    IN /\ At(t, "broadcastLoop", "send")
       /\ Top(t).p = "all"
       /\ Top(t).s = Top(t).seen \ {Top(t).ex}

\* C5: a message Broadcast(m, excludeID) has put on the broadcast queue is
\* sent to every member present at delivery time but excludeID, and to
\* every member when excludeID is empty.
C5_BroadcastExcludesExcludeID ==
    \A r \in Insts : (Len(rooms[r].broadcast) > 0) ~> DeliversAsAsked(r)

\* message m is on Room r's broadcast queue, or taken off it by the loop
\* that has not read the membership yet
Undelivered(r, m) ==
    \/ \E k \in 1..Len(rooms[r].broadcast) : rooms[r].broadcast[k].m = m
    \/ At(<<"loop", r>>, "broadcastLoop", "snapshot") /\ Top(<<"loop", r>>).m = m

\* C6: a session added to a Room after Broadcast has accepted m and before
\* the loop has processed m is sent m, unless it is m's sender.
C6_DeliveryTimeMembership ==
    \A r \in Insts, x \in ClientIDs :
        (x \in rooms[r].clients /\ x # TestMsg.from /\ Undelivered(r, TestMsg))
            ~> (TestMsg \in Range(client[x].send))

\* the registered Rooms carry the id they are registered under, and no
\* two ids share one
RegistryKeyed ==
    /\ \A rid \in RoomIDs : hubRooms[rid] # NoInst => rooms[hubRooms[rid]].ID = rid
    /\ \A r1, r2 \in RoomIDs :
          (r1 # r2 /\ hubRooms[r1] # NoInst) => hubRooms[r1] # hubRooms[r2]

\* the room id goroutine t is about to pass to Hub.GetRoom, "" when it is
\* not about to call it
Asking(t) ==
    IF At(t, "NewClient", "start") THEN Top(t).p
    ELSE IF At(t, "Test", "run") /\ Top(t).calls # <<>> /\ Head(Top(t).calls).op = "GetRoom"
    THEN Head(Top(t).calls).rid
    ELSE ""

\* the Room goroutine t holds once its call of Hub.GetRoom has returned
Got(t) == IF t[1] = "accept" THEN client'[t[2]].room ELSE stack'[t][1].r

\* C11: Hub.GetRoom is an atomic get-or-create: while an id stays
\* registered every caller gets the one Room registered under it, a Room is
\* created only for an unregistered id, it is a fresh one carrying the id
\* asked for, and different ids get different Rooms.
C11_GetRoomAtomic ==
    [][/\ RegistryKeyed'
       /\ \A rid \in RoomIDs :
             /\ (hubRooms[rid] # NoInst /\ hubRooms'[rid] # NoInst)
                    => hubRooms'[rid] = hubRooms[rid]
             /\ (hubRooms[rid] = NoInst /\ hubRooms'[rid] # NoInst)
                    => /\ hubRooms'[rid] = nextInst
                       /\ nextInst' = nextInst + 1
                       /\ rooms'[nextInst] = NewRoom(rid)
       /\ \A t \in Threads :
             (Asking(t) # "" /\ stack'[t] # stack[t])
                 => /\ Got(t) = hubRooms'[Asking(t)]
                    /\ rooms'[Got(t)].ID = Asking(t)
                    /\ hubRooms[Asking(t)] # NoInst => Got(t) = hubRooms[Asking(t)]]_vars

\* two connections that asked for r1 hold the same registered Room while
\* the connection that asked for r2 holds another one, registered under r2
C11_Witness ==
    /\ client["a"].made /\ client["b"].made /\ client["c"].made
    /\ client["a"].room = hubRooms["r1"]
    /\ client["b"].room = hubRooms["r1"]
    /\ client["c"].room = hubRooms["r2"]
    /\ hubRooms["r2"] # hubRooms["r1"]

\* goroutine t is inside a call of Client.Send
InSend(t) == \E k \in 1..Len(stack[t]) : stack[t][k].fn = "Send"

\* C19: every call of Client.Send returns to its caller, whether the
\* session's queue has room, is full or the session is closed.
C19_SendReturns == \A t \in Threads : InSend(t) ~> ~InSend(t)

\* session c has a welcome for room rid and a user-list that does not name
\* it on its outbound queue
Welcomed(c, rid) ==
    /\ \E m \in Range(client[c].send) :
          m.type = "welcome" /\ m.roomId = rid /\ m.who = c
                             /\ m.isHost = BoolStr(client[c].isHost)
    /\ \E m \in Range(client[c].send) : m.type = "user-list" /\ c \notin m.users

\* C25: NewClient sends the new session a welcome with the room id, its
\* client id and its host flag, and a user-list of the other members.
C25_WelcomeAndUserList ==
    \A c \in DialClients, rid \in ServerRoomIDs :
        (Inside(<<"accept", c>>, "NewClient", "start") /\ stack[<<"accept", c>>][1].p = rid)
            ~> Welcomed(c, rid)

\* NewClient for b is about to add b to Room r, whose host is member a
JoiningUnderHost(b, a, r) ==
    /\ At(<<"accept", b>>, "AddClient", "lock")
    /\ Top(<<"accept", b>>).r = r
    /\ a # b
    /\ rooms[r].hostID = a
    /\ a \in rooms[r].clients

\* C26: when session B joins through NewClient a room whose host is member
\* A, B is sent a host-change naming A and does not become host, and A is
\* sent the user-joined for B while B is not.
C26_JoinUnderHost ==
    \A b \in DialClients, a \in ClientIDs, r \in Insts :
        JoiningUnderHost(b, a, r) ~>
            /\ HostChangeTo(a, FALSE) \in Range(client[b].send)
            /\ ~client[b].isHost
            /\ UserJoinedMsg(b, FALSE) \in Range(client[a].send)
            /\ UserJoinedMsg(b, FALSE) \notin Range(client[b].send)

Registered == {rid \in RoomIDs : hubRooms[rid] # NoInst}

\* the goroutines that can call Hub.GetActiveRooms
Listing == {<<"api", "">>, <<"test", "">>}

\* goroutine t takes a step in which Hub.GetActiveRooms returns
Lists(t) ==
    /\ stack'[t] # stack[t]
    /\ \/ At(t, "apiRooms", "idle")
       \/ At(t, "Test", "run") /\ Top(t).calls # <<>>
                               /\ Head(Top(t).calls).op = "GetActiveRooms"

\* C28: Hub.GetActiveRooms returns the ids registered at the instant of the
\* call, each once: none for a new Hub, and every id GetRoom created.
C28_ActiveRoomsAreRegistered ==
    /\ [](nextInst = 1 => GetActiveRoomsList = {<<>>})
    /\ [][\A t \in Listing :
              Lists(t) =>
                  LET l == stack'[t][1].out
                  IN /\ Range(l) = Registered
                     /\ Len(l) = Cardinality(Registered)
                     /\ \A rid \in RoomIDs :
                           (\E i \in Insts : rooms[i].ID = rid) => rid \in Range(l)]_vars

\* an /api/rooms request has been answered with both rooms the connections
\* made
C28_Witness ==
    /\ Len(stack[<<"api", "">>]) = 1
    /\ Range(stack[<<"api", "">>][1].out) = ServerRoomIDs
    /\ Registered = ServerRoomIDs

\* the goroutine that holds the lock goroutine t is waiting to take: the
\* session's mutex at the head of Send, Client.SetHost and Close, the room's
\* mutex at the head of AddClient, RemoveClient and Room.SetHost
WaitsOn(t) ==
    IF Len(stack[t]) = 0 \/ Top(t).pc # "lock" THEN NoThread
    ELSE IF Top(t).fn \in {"Send", "ClientSetHost", "Close"} THEN cmutex[Top(t).c]
    ELSE IF Top(t).fn \in {"AddClient", "RemoveClient", "RoomSetHost"} THEN rmutex[Top(t).r]
    ELSE NoThread

\* C35: no two activities ever each wait for a lock the other holds, and
\* none waits for a lock it holds itself: taking the room lock then a
\* session lock (AddClient, Room.SetHost) and a session lock then the room
\* lock (Close) never closes a cycle.
C35_NoLockOrderDeadlock ==
    \A t, u \in Threads : ~(WaitsOn(t) = u /\ WaitsOn(u) = t)

\* the broadcast loop of Room r has nothing queued and waits for a message
LoopIdle(r) ==
    /\ Len(rooms[r].broadcast) = 0
    /\ At(<<"loop", r>>, "broadcastLoop", "recv")

\* C36: every message accepted into the broadcast queue of a Room is taken
\* and processed by the Room's loop: whenever the queue holds a message the
\* loop comes back to an empty queue and waits for the next one.
C36_BroadcastQueueDrains ==
    \A r \in Insts : (Len(rooms[r].broadcast) > 0) ~> LoopIdle(r)

====
